---- MODULE Spec2Model ----
(***************************************************************************)
(* Model of image-optimizer: discovery (scan_images), the per-file         *)
(* pipeline (optimize_image with its path resolution, backup, encoders and *)
(* size-win decision) and the batch coordinator of main with its three     *)
(* mutex-protected accumulators.                                           *)
(*                                                                         *)
(* A path is a sequence of components; a component is the sequence of the  *)
(* dot-separated parts of a name ("a.tmp.png" is <<"a","tmp","png">>).     *)
(* A file's bytes are a record [kind, of, size]: two contents are          *)
(* byte-identical exactly when the records are equal.                      *)
(***************************************************************************)
EXTENDS Integers, Sequences, FiniteSets, TLC

\* The batch: the command line, the file system, main and its workers.
VARIABLES args, fs, dirs, fs0, image_files, mpc, pc, loc, calls,
          total_saved, processed, skipped, lock, pos, report
\* The resize planner and the resize step of optimize_image.
VARIABLES width, height, max_size, new_dims, resize_call, rpc
\* update_self: its position, the platform and the path of the running
\* executable, what it fetched, the file modes, its result.
VARIABLES upc, target_os, current_exe, release, binary_data, perms,
          update_result
\* compare_versions: its arguments, its result, the result of the call with
\* the arguments exchanged, and which of the two calls have returned.
VARIABLES cv_current, cv_latest, available, reverse, vpc

batch_vars == <<args, fs, dirs, fs0, image_files, mpc, pc, loc, calls,
                total_saved, processed, skipped, lock, pos, report>>
resize_vars == <<width, height, max_size, new_dims, resize_call, rpc>>
update_vars == <<upc, target_os, current_exe, release, binary_data, perms,
                 update_result, cv_current, cv_latest, available, reverse,
                 vpc>>

vars == <<batch_vars, resize_vars, update_vars>>

\* ---------------------------------------------------------------- bounds
\* Largest number of files present below the input root.
MaxFiles == 2
\* Largest width, height and max_size the resize planner is given, next to
\* the examples of its documentation.
MaxDim == 22
\* Byte length of every file present before the run.
OrigSize == 3
\* The longer edge asked for when max_size is set.
MaxEdge == 15

\* Marker left by joining an empty relative path: "out" joined with "" is "out/".
SLASH == <<>>

\* ------------------------------------------------------- std::path::Path
\* An Option is a set with at most one element; unwrap_or takes the element.
unwrap_or(o, dflt) == IF o = {} THEN dflt ELSE CHOOSE x \in o : TRUE

Norm(p) ==
  IF Len(p) > 0 /\ p[Len(p)] = SLASH THEN SubSeq(p, 1, Len(p) - 1) ELSE p

file_name(p) ==
  LET q == Norm(p) IN IF Len(q) = 0 THEN {} ELSE {q[Len(q)]}

HasExt(n) == Len(n) > 1 /\ ~(Len(n) = 2 /\ n[1] = "")

extension(p) == {n[Len(n)] : n \in {m \in file_name(p) : HasExt(m)}}

file_stem(p) ==
  {IF HasExt(n) THEN SubSeq(n, 1, Len(n) - 1) ELSE n : n \in file_name(p)}

\* Mutant of with_extension: the stem is dropped, only the new extension
\* is left as the name.
with_extension_no_stem(p, ext) ==
  LET q == Norm(p) IN
  IF file_name(p) = {} THEN p ELSE [q EXCEPT ![Len(q)] = ext]

with_extension(p, ext) ==
  LET q == Norm(p) IN
  IF file_name(p) = {} THEN p
  ELSE [q EXCEPT ![Len(q)] = unwrap_or(file_stem(p), <<>>) \o ext]

IsPrefix(b, p) == Len(b) <= Len(p) /\ SubSeq(p, 1, Len(b)) = b

strip_prefix(p, base) ==
  LET q == Norm(p)
      b == Norm(base) IN
  IF IsPrefix(b, q) THEN {SubSeq(q, Len(b) + 1, Len(q))} ELSE {}

join(p, rel) == IF rel = <<>> THEN Append(Norm(p), SLASH) ELSE Norm(p) \o rel

parent(p) ==
  LET q == Norm(p) IN
  IF Len(q) = 0 THEN {} ELSE {SubSeq(q, 1, Len(q) - 1)}

\* str::to_lowercase on the extensions that occur.
to_lowercase(s) ==
  CASE s = "JPG" -> "jpg"
    [] s = "PNG" -> "png"
    [] OTHER -> s

\* --------------------------------------------------------- the file system
Exists(f, p) == p \in DOMAIN f
Put(f, p, c) == [q \in (DOMAIN f) \cup {p} |-> IF q = p THEN c ELSE f[q]]
Del(f, p) == [q \in (DOMAIN f) \ {p} |-> f[q]]

\* A path that names a directory, or ends in a separator, cannot be opened
\* for writing as a file.
Writable(d, p) ==
  /\ Len(p) > 0
  /\ p[Len(p)] # SLASH
  /\ p \notin d
  /\ (Len(p) = 1 \/ SubSeq(p, 1, Len(p) - 1) \in d)

\* Width and height of the images present before the run: those named "a"
\* are larger than the longer edge a run may ask for, the others fit it.
Dims(p) ==
  IF \E n \in file_stem(p) : n[1] = "a" THEN <<22, 11>> ELSE <<10, 15>>

\* A file's bytes: what they are, the file they derive from, their length,
\* and the width and height of the image they hold.
Orig(p) == [kind |-> "orig", of |-> p, size |-> OrigSize, dims |-> Dims(p)]
Empty == [kind |-> "empty", of |-> <<>>, size |-> 0, dims |-> <<0, 0>>]

\* std::fs::create_dir_all: the directory and every missing ancestor.
create_dir_all(d, p) == d \cup {SubSeq(p, 1, k) : k \in 1..Len(p)}

\* ------------------------------------------------------------- the worlds
InDir == << <<"in">> >>
SubDir == << <<"in">>, <<"sub">> >>
OutDir == << <<"out">> >>
FileA == << <<"in">>, <<"a", "png">> >>
FileATmp == << <<"in">>, <<"a", "tmp", "png">> >>
FileSub == << <<"in">>, <<"sub">>, <<"a", "png">> >>
FileJpg == << <<"in">>, <<"b", "JPG">> >>
FileTxt == << <<"in">>, <<"c", "txt">> >>

\* The catalogue of image files a world may hold; a world holds up to
\* MaxFiles consecutive ones (a file and its leftover staging file, a file
\* and its namesake in the sub-directory, two formats), next to a text file.
Catalogue == <<FileATmp, FileA, FileSub, FileJpg>>

Window(k, n) == {Catalogue[j] : j \in {m \in k..(k + n - 1) : m <= Len(Catalogue)}}

Worlds == {Window(k, n) \cup {FileTxt} : k \in 1..Len(Catalogue), n \in 0..MaxFiles}

InitFs(w) == [p \in w |-> Orig(p)]
InitDirs(w) == {InDir} \cup (IF FileSub \in w THEN {SubDir} ELSE {})

\* -------------------------------------------------------------- discovery
SUPPORTED_EXTENSIONS == {"jpg", "jpeg", "png", "webp"}

\* Mutant of Supported: the extension is compared as it is spelled.
SupportedAsSpelled(p) ==
  \E e \in extension(p) : e \in SUPPORTED_EXTENSIONS

Supported(p) ==
  \E e \in extension(p) : to_lowercase(e) \in SUPPORTED_EXTENSIONS

\* The set of paths scan_images pushes; the walk order is the directory's.
scan_images(f, d, path, recursive) ==
  IF Exists(f, path)
  THEN IF Supported(path) THEN {path} ELSE {}
  ELSE {p \in DOMAIN f :
          /\ IsPrefix(path, p)
          /\ path \in d
          /\ (recursive \/ Len(p) = Len(path) + 1)
          /\ Supported(p)}

Orderings(S) ==
  {s \in [1..Cardinality(S) -> S] : \A i, j \in DOMAIN s : i # j => s[i] # s[j]}

\* ------------------------------------------------------------------ Init
Inputs == {InDir, FileA, FileTxt}
Outputs == {{}, {OutDir}, {InDir}}

Cli ==
  [input : Inputs, output : Outputs, backup : BOOLEAN, recursive : BOOLEAN,
   max_size : BOOLEAN, no_parallel : BOOLEAN]

NoResult == [tag |-> "none", n |-> 0, msg |-> ""]
Ok(n) == [tag |-> "Ok", n |-> n, msg |-> ""]
\* An error result. Of the messages only the one of the dispatch is told
\* apart from the errors the earlier and later steps pass on.
Err(step) ==
  [tag |-> "Err", n |-> 0,
   msg |-> IF step = "unsupported" THEN "Unsupported file format" ELSE "other"]

InitLoc ==
  [original_size |-> 0, output_path |-> <<>>, img |-> FALSE,
   img_dims |-> <<0, 0>>, resized |-> FALSE, read_input |-> FALSE,
   encoder |-> "none", optimized_size |-> 0, result |-> NoResult, tmp |-> 0]

\* The planner and the updater at rest, while another part is looked at.
ResizeIdle ==
  /\ width = 0 /\ height = 0 /\ max_size = 0
  /\ new_dims = <<0, 0>> /\ resize_call = {} /\ rpc = "idle"

UpdateIdle ==
  /\ upc = "idle" /\ target_os = <<"linux", "x86_64">> /\ current_exe = <<>>
  /\ release = {}
  /\ binary_data = {} /\ perms = <<>> /\ update_result = NoResult
  /\ cv_current = <<>> /\ cv_latest = <<>> /\ available = {} /\ reverse = {}
  /\ vpc = {}

Init ==
  /\ ResizeIdle /\ UpdateIdle
  /\ args \in Cli
  /\ \E w \in Worlds : fs = InitFs(w) /\ dirs = InitDirs(w)
  /\ fs0 = fs
  /\ image_files = <<>>
  /\ mpc = "main"
  /\ pc = <<>>
  /\ loc = <<>>
  /\ calls = <<>>
  /\ total_saved = 0
  /\ processed = 0
  /\ skipped = 0
  /\ lock = [total_saved |-> 0, processed |-> 0, skipped |-> 0]
  /\ pos = 0
  /\ report = [processed |-> 0, skipped |-> 0, total_saved |-> 0]

Files == DOMAIN image_files
is_in_place == args.output = {}

\* ------------------------------------------------------------------ main
\* The orders in which the walk may have pushed the files. Only the
\* sequential for_each depends on the order; par_iter treats the list as a
\* set of independent items, so one order stands for all of them there.
WalkOrders(S) ==
  IF args.no_parallel THEN Orderings(S) ELSE {CHOOSE s \in Orderings(S) : TRUE}

\* Mutant of EmptyExit: one message for both cases.
EmptyExitOneMessage(f, input) == "no_images"

\* image_files.is_empty(): which of the two messages main prints before it
\* returns Ok(()); input.is_file() tells them apart.
EmptyExit(f, input) ==
  IF Exists(f, input) THEN "not_supported" ELSE "no_images"

\* main up to the fan-out: existence check, discovery, empty-list exit.
MainScan ==
  /\ mpc = "main"
  /\ IF ~(Exists(fs, args.input) \/ args.input \in dirs)
     THEN mpc' = "error" /\ UNCHANGED <<image_files, pc, loc, calls>>
     ELSE \E files \in WalkOrders(scan_images(fs, dirs, args.input, args.recursive)) :
            /\ image_files' = files
            /\ mpc' = IF files = <<>> THEN EmptyExit(fs, args.input) ELSE "batch"
            /\ pc' = [i \in DOMAIN files |-> "start"]
            /\ loc' = [i \in DOMAIN files |-> InitLoc]
            /\ calls' = [i \in DOMAIN files |-> 0]
  /\ UNCHANGED <<resize_vars, update_vars>>
  /\ UNCHANGED <<args, fs, dirs, fs0, total_saved, processed, skipped, lock,
                 pos, report>>

\* Mutant of MayStart: the first error stops the hand-out of further files.
MayStartUnlessFailed(i) ==
  /\ args.no_parallel => \A j \in Files : j < i => pc[j] = "done"
  /\ \A j \in Files : loc[j].result.tag # "Err"

\* for_each (sequential) hands out the files in list order, one at a time;
\* par_iter().for_each lets every file run on its own.
MayStart(i) ==
  args.no_parallel => \A j \in Files : j < i => pc[j] = "done"

\* ------------------------------------------------------------------- f64
\* A positive f64 is [bits, e]: 53 mantissa bits, most significant first
\* and 1, standing for the integer they spell times 2^e. Zero has no bits.
\* Every operation rounds its exact result to nearest, ties to even, as
\* IEEE 754 does.
F64Zero == [bits |-> <<>>, e |-> 0]

Max(a, b) == IF a >= b THEN a ELSE b

RECURSIVE ToBits(_)
ToBits(n) == IF n = 0 THEN <<>> ELSE Append(ToBits(n \div 2), n % 2)

\* The integer the first k bits spell.
RECURSIVE FromBits(_, _)
FromBits(bits, k) ==
  IF k = 0 THEN 0 ELSE 2 * FromBits(bits, k - 1) + bits[k]

\* The bits plus one: the last 0 becomes 1 and the 1s after it become 0.
Increment(bits) ==
  LET zeros == {k \in 1..Len(bits) : bits[k] = 0} IN
  IF zeros = {} THEN <<1>> \o [k \in 1..Len(bits) |-> 0]
  ELSE LET j == CHOOSE k \in zeros : \A i \in zeros : i <= k IN
       [k \in 1..Len(bits) |->
          IF k < j THEN bits[k] ELSE IF k = j THEN 1 ELSE 0]

\* The exact value bits * 2^e, plus a non-zero tail below the last bit when
\* sticky, rounded to 53 bits.
RoundTo53(bits, sticky, e) ==
  IF Len(bits) <= 53
  THEN [bits |-> bits \o [k \in 1..(53 - Len(bits)) |-> 0],
        e |-> e - (53 - Len(bits))]
  ELSE LET keep == SubSeq(bits, 1, 53)
           guard == bits[54]
           tail == sticky \/ \E k \in 55..Len(bits) : bits[k] = 1
           up == guard = 1 /\ (tail \/ keep[53] = 1)
           m == IF up THEN Increment(keep) ELSE keep
           ex == e + (Len(bits) - 53) IN
       IF Len(m) = 54 THEN [bits |-> SubSeq(m, 1, 53), e |-> ex + 1]
       ELSE [bits |-> m, e |-> ex]

RECURSIVE Pow2(_)
Pow2(k) == IF k = 0 THEN 1 ELSE 2 * Pow2(k - 1)

\* The ten bits of n < 1024.
Bits10(n) == [k \in 1..10 |-> (n \div Pow2(10 - k)) % 2]

\* Long division, ten bits a step: the next 10 * k bits of r / b for
\* 0 <= r < b, and the remainder left.
RECURSIVE QuotientBits(_, _, _)
QuotientBits(r, b, k) ==
  IF k = 0 THEN [bits |-> <<>>, rem |-> r]
  ELSE LET rest == QuotientBits((1024 * r) % b, b, k - 1) IN
       [bits |-> Bits10((1024 * r) \div b) \o rest.bits, rem |-> rest.rem]

\* The least s with a * 2^s >= b, and the largest t with b * 2^t <= a.
RECURSIVE ShiftUp(_, _)
ShiftUp(a, b) == IF a >= b THEN 0 ELSE 1 + ShiftUp(2 * a, b)

RECURSIVE ShiftDown(_, _)
ShiftDown(a, b) == IF 2 * b > a THEN 0 ELSE 1 + ShiftDown(a, 2 * b)

\* f64::from(a) / f64::from(b) for integers a >= 0, b > 0.
F64Div(a, b) ==
  IF a = 0 THEN F64Zero
  ELSE LET s == ShiftUp(a, b)
           t == IF s = 0 THEN ShiftDown(a, b) ELSE 0
           num == a * Pow2(s)
           den == b * Pow2(t)
           q == QuotientBits(num - den, den, 6) IN
       RoundTo53(<<1>> \o q.bits, q.rem # 0, t - s - 60)

\* The integer the bits lo..hi spell (positions before the first are 0).
RECURSIVE FromRange(_, _, _)
FromRange(bits, lo, hi) ==
  IF hi < lo \/ hi < 1 THEN 0 ELSE 2 * FromRange(bits, lo, hi - 1) + bits[hi]

\* The 53 bits as six limbs of ten bits, the last limb the lowest.
Limbs(bits) == [j \in 1..6 |-> FromRange(bits, 10 * j - 16, 10 * j - 7)]

\* Long multiplication: the first j limbs times v, plus carry.
RECURSIVE MulLimbs(_, _, _, _)
MulLimbs(limbs, v, j, carry) ==
  IF j = 1 THEN ToBits(limbs[1] * v + carry)
  ELSE MulLimbs(limbs, v, j - 1, (limbs[j] * v + carry) \div 1024)
         \o Bits10((limbs[j] * v + carry) % 1024)

\* f64::from(v) * x for an integer v >= 0.
F64Mul(v, x) ==
  IF v = 0 \/ x = F64Zero THEN F64Zero
  ELSE RoundTo53(MulLimbs(Limbs(x.bits), v, 6, 0), FALSE, x.e)

\* Mutant of F64Round: the fraction is cut off.
F64Truncate(x) ==
  IF x = F64Zero \/ 53 + x.e <= 0 THEN 0
  ELSE FromBits(x.bits, 53 + x.e)

\* Mutant of F64Round: the result is at least 1.
F64RoundAtLeastOne(x) ==
  IF x = F64Zero \/ 53 + x.e < 0 THEN 1
  ELSE Max(1, FromBits(x.bits, 53 + x.e) + x.bits[53 + x.e + 1])

\* x.round() as u32, for x below 2^31: half-way cases go away from zero, so
\* the integer part goes up exactly when the first fraction bit is set.
F64Round(x) ==
  IF x = F64Zero \/ 53 + x.e < 0 THEN 0
  ELSE FromBits(x.bits, 53 + x.e) + x.bits[53 + x.e + 1]

\* ------------------------------------------------------ the resize planner
\* Mutant of calculate_resize_dimensions: the early return is missing, every
\* image is scaled to the maximum.
calculate_resize_dimensions_always(w, h, m) ==
  LET longer_edge == Max(w, h) IN
  IF longer_edge = 0 THEN <<w, h>>
  ELSE LET scale_factor == F64Div(m, longer_edge) IN
       <<F64Round(F64Mul(w, scale_factor)), F64Round(F64Mul(h, scale_factor))>>

calculate_resize_dimensions(w, h, m) ==
  LET longer_edge == Max(w, h) IN
  IF longer_edge <= m THEN <<w, h>>
  ELSE LET scale_factor == F64Div(m, longer_edge) IN
       <<F64Round(F64Mul(w, scale_factor)), F64Round(F64Mul(h, scale_factor))>>

\* ------------------------------------------------------- optimize_image
staging_path(p) ==
  with_extension(p, <<"tmp", unwrap_or(extension(p), "jpg")>>)

backup_path(p) ==
  with_extension(p, <<unwrap_or(extension(p), ""), "bak">>)

\* Mutant of output_file_path: a file outside the input root is placed in
\* the output directory under its own name.
output_file_path_by_name(output_path, input_path, file_path) ==
  IF strip_prefix(file_path, input_path) = {}
  THEN {join(output_path, <<n>>) : n \in file_name(file_path)}
  ELSE {join(output_path, rel) : rel \in strip_prefix(file_path, input_path)}

\* ensure_output_dir's result path (an Option).
output_file_path(output_path, input_path, file_path) ==
  {join(output_path, rel) : rel \in strip_prefix(file_path, input_path)}

AfterBackup == IF args.max_size THEN "decode" ELSE "encode"
AfterResolve == IF args.backup /\ is_in_place THEN "backup" ELSE AfterBackup

\* Mutant of Return: a failed file leaves the closure before the tick.
ReturnWithoutTickOnError(r) ==
  IF r.tag = "Err" THEN "done"
  ELSE IF r.n > 0 THEN "lock_saved" ELSE "lock_skipped"

\* Mutant of Return: a failed file is counted as skipped.
ReturnCountsErrors(r) ==
  IF r.tag = "Ok" /\ r.n > 0 THEN "lock_saved" ELSE "lock_skipped"

\* Where the closure of main continues once optimize_image has returned r.
Return(r) ==
  IF r.tag = "Err" THEN "tick"
  ELSE IF r.n > 0 THEN "lock_saved" ELSE "lock_skipped"

Fail(i, step) ==
  /\ loc' = [loc EXCEPT ![i].result = Err(step)]
  /\ pc' = [pc EXCEPT ![i] = Return(Err(step))]

\* fs::metadata(input_path) and, in place, the staging path.
Start(i) ==
  /\ mpc = "batch" /\ pc[i] = "start" /\ MayStart(i)
  /\ calls' = [calls EXCEPT ![i] = @ + 1]
  /\ \E io \in BOOLEAN :
       IF io /\ Exists(fs, image_files[i])
       THEN /\ loc' = [loc EXCEPT
                 ![i].original_size = fs[image_files[i]].size,
                 ![i].output_path =
                    IF is_in_place THEN staging_path(image_files[i]) ELSE <<>>]
            /\ pc' = [pc EXCEPT ![i] =
                        IF is_in_place THEN AfterResolve ELSE "resolve"]
       ELSE Fail(i, "metadata")
  /\ UNCHANGED <<resize_vars, update_vars>>
  /\ UNCHANGED <<args, fs, dirs, fs0, image_files, mpc, total_saved,
                 processed, skipped, lock, pos, report>>

\* ensure_output_dir(output_dir, input_dir, input_path)
Resolve(i) ==
  /\ mpc = "batch" /\ pc[i] = "resolve"
  /\ LET o == output_file_path(unwrap_or(args.output, <<>>), args.input,
                               image_files[i]) IN
     \E io \in BOOLEAN :
       IF o # {} /\ io
       THEN /\ dirs' = create_dir_all(dirs, unwrap_or(parent(unwrap_or(o, <<>>)), <<>>))
            /\ loc' = [loc EXCEPT ![i].output_path = unwrap_or(o, <<>>)]
            /\ pc' = [pc EXCEPT ![i] = AfterResolve]
       ELSE Fail(i, "resolve") /\ dirs' = dirs
  /\ UNCHANGED <<resize_vars, update_vars>>
  /\ UNCHANGED <<args, fs, fs0, image_files, mpc, calls, total_saved,
                 processed, skipped, lock, pos, report>>

\* create_backup(input_path)
Backup(i) ==
  /\ mpc = "batch" /\ pc[i] = "backup"
  /\ \E io \in BOOLEAN :
       IF io /\ Exists(fs, image_files[i])
       THEN /\ fs' = Put(fs, backup_path(image_files[i]), fs[image_files[i]])
            /\ pc' = [pc EXCEPT ![i] = AfterBackup]
            /\ loc' = loc
       ELSE Fail(i, "backup") /\ fs' = fs
  /\ UNCHANGED <<resize_vars, update_vars>>
  /\ UNCHANGED <<args, dirs, fs0, image_files, mpc, calls, total_saved,
                 processed, skipped, lock, pos, report>>

\* Bytes a decoder accepts: an original or an encoder's complete output.
Decodable(c) == c.kind \in {"orig", "enc"}

\* The extensions image::open knows a decoder for: those of the formats
\* this program handles and others ("gif" stands for them).
ImageCrateFormats == {"jpg", "jpeg", "png", "webp", "gif"}

\* image::open picks the decoder by the path's extension and decodes.
CanOpen(f, p) ==
  /\ Exists(f, p) /\ Decodable(f[p])
  /\ to_lowercase(unwrap_or(extension(p), "")) \in ImageCrateFormats

\* Mutant of ResizeApplied: the decoded pixels are never resized.
ResizeNever(d, n) == FALSE

\* if new_width != width || new_height != height { img.resize(..) }; the
\* image resize returns fits the planned width and height, which stand for
\* its own.
ResizeApplied(d, n) == n # d

\* image::open(input_path) and the optional resize, when max_size is set.
Decode(i) ==
  /\ mpc = "batch" /\ pc[i] = "decode"
  /\ \E io \in BOOLEAN :
       IF io /\ CanOpen(fs, image_files[i])
       THEN LET d == fs[image_files[i]].dims
                n == calculate_resize_dimensions(d[1], d[2], MaxEdge)
            IN /\ loc' = [loc EXCEPT ![i].img = TRUE,
                                     ![i].resized = ResizeApplied(d, n),
                                     ![i].img_dims = n]
               /\ pc' = [pc EXCEPT ![i] = "encode"]
       ELSE Fail(i, "decode")
  /\ UNCHANGED <<resize_vars, update_vars>>
  /\ UNCHANGED <<args, fs, dirs, fs0, image_files, mpc, calls, total_saved,
                 processed, skipped, lock, pos, report>>

\* --------------------------------------------------------- the encoders
\* Byte lengths an encoder may produce: smaller than, equal to and larger
\* than the original.
EncSizes == {1, OrigSize, OrigSize + 1}

Enc(p, s, d) == [kind |-> "enc", of |-> p, size |-> s, dims |-> d]
\* What a write that failed part-way leaves behind.
Junk(p) == [kind |-> "junk", of |-> p, size |-> 1, dims |-> <<0, 0>>]

\* fs::copy's destination bytes; copying a file onto itself truncates it.
Copied(f, from, to) == IF from = to THEN Empty ELSE f[from]

Format(p) == to_lowercase(unwrap_or(extension(p), ""))

\* Mutant of EncoderFor: every file goes to the JPEG encoder.
EncoderAlwaysJpeg(format) == "jpeg"

\* The arm of the match a lower-cased extension selects.
EncoderFor(format) ==
  CASE format \in {"jpg", "jpeg"} -> "jpeg"
    [] format = "png" -> "png"
    [] format = "webp" -> "webp"
    [] OTHER -> "none"

\* An encoder was entered and returned an error.
FailIn(i, encoder) ==
  /\ loc' = [loc EXCEPT ![i].result = Err("encode"), ![i].encoder = encoder,
                        ![i].read_input = ~loc[i].img]
  /\ pc' = [pc EXCEPT ![i] = Return(Err("encode"))]

\* optimize_jpeg / optimize_webp: decode (unless pixels were handed in),
\* encode in memory, then fs::write(output_path).
EncodeInMemory(i, p, out) ==
  LET source == loc[i].img \/ (Exists(fs, p) /\ Decodable(fs[p]))
      d == IF loc[i].img THEN loc[i].img_dims ELSE fs[p].dims IN
  \E io \in {"ok", "partial", "fail"} : \E s \in EncSizes :
    IF io = "ok" /\ source /\ Writable(dirs, out)
    THEN /\ fs' = Put(fs, out, Enc(p, s, d))
         /\ pc' = [pc EXCEPT ![i] = "stat"]
         /\ loc' = [loc EXCEPT ![i].encoder = EncoderFor(Format(p)),
                               ![i].read_input = ~loc[i].img]
    ELSE IF io = "partial" /\ source /\ Writable(dirs, out)
    THEN fs' = Put(fs, out, Junk(p)) /\ FailIn(i, EncoderFor(Format(p)))
    ELSE fs' = fs /\ FailIn(i, EncoderFor(Format(p)))

\* optimize_png: stage into output_path (save the pixels, or copy the
\* original), then let oxipng rewrite the staged file in place.
EncodePng(i, p, out) ==
  \E io \in {"ok", "staged", "fail"} : \E s \in EncSizes :
    LET canStage == Writable(dirs, out) /\ (loc[i].img \/ Exists(fs, p))
        staged == IF loc[i].img THEN Enc(p, s, loc[i].img_dims)
                  ELSE Copied(fs, p, out) IN
    IF io = "ok" /\ canStage /\ Decodable(staged)
    THEN /\ fs' = Put(fs, out, Enc(p, s, staged.dims))
         /\ pc' = [pc EXCEPT ![i] = "stat"]
         /\ loc' = [loc EXCEPT ![i].encoder = "png",
                               ![i].read_input = ~loc[i].img]
    ELSE IF io # "fail" /\ canStage
    THEN fs' = Put(fs, out, staged) /\ FailIn(i, "png")
    ELSE fs' = fs /\ FailIn(i, "png")

\* match extension.as_str() { ... }
Encode(i) ==
  /\ mpc = "batch" /\ pc[i] = "encode"
  /\ LET p == image_files[i]
         out == loc[i].output_path IN
     CASE EncoderFor(Format(p)) \in {"jpeg", "webp"} -> EncodeInMemory(i, p, out)
       [] EncoderFor(Format(p)) = "png" -> EncodePng(i, p, out)
       [] OTHER -> fs' = fs /\ Fail(i, "unsupported")
  /\ UNCHANGED <<resize_vars, update_vars>>
  /\ UNCHANGED <<args, dirs, fs0, image_files, mpc, calls, total_saved,
                 processed, skipped, lock, pos, report>>

\* fs::metadata(&output_path)
StatStaged(i) ==
  /\ mpc = "batch" /\ pc[i] = "stat"
  /\ \E io \in BOOLEAN :
       IF io /\ Exists(fs, loc[i].output_path)
       THEN /\ loc' = [loc EXCEPT
                 ![i].optimized_size = fs[loc[i].output_path].size]
            /\ pc' = [pc EXCEPT ![i] = "commit"]
       ELSE Fail(i, "stat")
  /\ UNCHANGED <<resize_vars, update_vars>>
  /\ UNCHANGED <<args, fs, dirs, fs0, image_files, mpc, calls, total_saved,
                 processed, skipped, lock, pos, report>>

Finish(i, r) ==
  /\ loc' = [loc EXCEPT ![i].result = r]
  /\ pc' = [pc EXCEPT ![i] = Return(r)]

\* Mutant of SizeWin: a staged file of equal size also wins.
SizeWinOrEqual(optimized_size, original_size) == optimized_size <= original_size

\* The size comparison: the staged file wins only when strictly smaller.
SizeWin(optimized_size, original_size) == optimized_size < original_size

\* Ok(original_size - optimized_size)
Saved(original_size, optimized_size) == original_size - optimized_size

\* Mutant of Rename: the bytes are copied and the source is left behind.
RenameKeepsSource(f, from, to) == Put(f, to, f[from])

\* fs::rename(from, to): `to` takes the bytes, `from` is gone.
Rename(f, from, to) == Put(Del(f, from), to, f[from])

\* Mutant of Discarded: with an output directory the larger staged file is
\* left in place of the original.
DiscardedWithoutCopy(f, p, out) == IF is_in_place THEN Del(f, out) ELSE f

\* Mutant of Discarded: in place the larger staged file is left behind.
DiscardedLeftBehind(f, p, out) ==
  IF is_in_place THEN f ELSE Put(f, out, Copied(f, p, out))

\* The losing branch: in place the staged file is removed; with an output
\* directory the original is copied over the staged file.
Discarded(f, p, out) ==
  IF is_in_place THEN Del(f, out) ELSE Put(f, out, Copied(f, p, out))

\* if optimized_size < original_size { rename } else { remove | copy }
Commit(i) ==
  /\ mpc = "batch" /\ pc[i] = "commit"
  /\ LET p == image_files[i]
         out == loc[i].output_path IN
     \E io \in BOOLEAN :
       IF SizeWin(loc[i].optimized_size, loc[i].original_size)
       THEN IF is_in_place
            THEN IF io /\ Exists(fs, out)
                 THEN /\ fs' = Rename(fs, out, p)
                      /\ Finish(i, Ok(Saved(loc[i].original_size,
                                            loc[i].optimized_size)))
                 ELSE fs' = fs /\ Fail(i, "rename")
            ELSE /\ fs' = fs
                 /\ Finish(i, Ok(Saved(loc[i].original_size,
                                       loc[i].optimized_size)))
       ELSE IF is_in_place
            THEN IF io /\ Exists(fs, out)
                 THEN fs' = Discarded(fs, p, out) /\ Finish(i, Ok(0))
                 ELSE fs' = fs /\ Fail(i, "remove")
            ELSE IF io /\ Exists(fs, p) /\ Writable(dirs, out)
                 THEN fs' = Discarded(fs, p, out) /\ Finish(i, Ok(0))
                 ELSE fs' = fs /\ Fail(i, "copy")
  /\ UNCHANGED <<resize_vars, update_vars>>
  /\ UNCHANGED <<args, dirs, fs0, image_files, mpc, calls, total_saved,
                 processed, skipped, lock, pos, report>>

\* ------------------------------------------------- main: image_processor
\* Mutant of LockSaved: the accumulator is read without waiting for the lock.
LockSavedUnguarded(i) ==
  /\ mpc = "batch" /\ pc[i] = "lock_saved"
  /\ lock' = [lock EXCEPT !.total_saved = i]
  /\ loc' = [loc EXCEPT ![i].tmp = total_saved]
  /\ pc' = [pc EXCEPT ![i] = "add_saved"]
  /\ UNCHANGED <<resize_vars, update_vars>>
  /\ UNCHANGED <<args, fs, dirs, fs0, image_files, mpc, calls, total_saved,
                 processed, skipped, pos, report>>

\* total_saved.lock()
LockSaved(i) ==
  /\ mpc = "batch" /\ pc[i] = "lock_saved"
  /\ lock.total_saved = 0
  /\ lock' = [lock EXCEPT !.total_saved = i]
  /\ loc' = [loc EXCEPT ![i].tmp = total_saved]
  /\ pc' = [pc EXCEPT ![i] = "add_saved"]
  /\ UNCHANGED <<resize_vars, update_vars>>
  /\ UNCHANGED <<args, fs, dirs, fs0, image_files, mpc, calls, total_saved,
                 processed, skipped, pos, report>>

\* *saved += saved_bytes; the guard is dropped at the end of the block.
AddSaved(i) ==
  /\ mpc = "batch" /\ pc[i] = "add_saved"
  /\ total_saved' = loc[i].tmp + loc[i].result.n
  /\ lock' = [lock EXCEPT !.total_saved = 0]
  /\ loc' = [loc EXCEPT ![i].tmp = 0]
  /\ pc' = [pc EXCEPT ![i] = "lock_processed"]
  /\ UNCHANGED <<resize_vars, update_vars>>
  /\ UNCHANGED <<args, fs, dirs, fs0, image_files, mpc, calls, processed,
                 skipped, pos, report>>

\* Mutant of LockProcessed: the counter is read without waiting for the
\* lock.
LockProcessedUnguarded(i) ==
  /\ mpc = "batch" /\ pc[i] = "lock_processed"
  /\ lock' = [lock EXCEPT !.processed = i]
  /\ loc' = [loc EXCEPT ![i].tmp = processed]
  /\ pc' = [pc EXCEPT ![i] = "inc_processed"]
  /\ UNCHANGED <<resize_vars, update_vars>>
  /\ UNCHANGED <<args, fs, dirs, fs0, image_files, mpc, calls, total_saved,
                 processed, skipped, pos, report>>

\* processed.lock()
LockProcessed(i) ==
  /\ mpc = "batch" /\ pc[i] = "lock_processed"
  /\ lock.processed = 0
  /\ lock' = [lock EXCEPT !.processed = i]
  /\ loc' = [loc EXCEPT ![i].tmp = processed]
  /\ pc' = [pc EXCEPT ![i] = "inc_processed"]
  /\ UNCHANGED <<resize_vars, update_vars>>
  /\ UNCHANGED <<args, fs, dirs, fs0, image_files, mpc, calls, total_saved,
                 processed, skipped, pos, report>>

\* *proc += 1
IncProcessed(i) ==
  /\ mpc = "batch" /\ pc[i] = "inc_processed"
  /\ processed' = loc[i].tmp + 1
  /\ lock' = [lock EXCEPT !.processed = 0]
  /\ loc' = [loc EXCEPT ![i].tmp = 0]
  /\ pc' = [pc EXCEPT ![i] = "tick"]
  /\ UNCHANGED <<resize_vars, update_vars>>
  /\ UNCHANGED <<args, fs, dirs, fs0, image_files, mpc, calls, total_saved,
                 skipped, pos, report>>

\* skipped.lock()
LockSkipped(i) ==
  /\ mpc = "batch" /\ pc[i] = "lock_skipped"
  /\ lock.skipped = 0
  /\ lock' = [lock EXCEPT !.skipped = i]
  /\ loc' = [loc EXCEPT ![i].tmp = skipped]
  /\ pc' = [pc EXCEPT ![i] = "inc_skipped"]
  /\ UNCHANGED <<resize_vars, update_vars>>
  /\ UNCHANGED <<args, fs, dirs, fs0, image_files, mpc, calls, total_saved,
                 processed, skipped, pos, report>>

\* *skip += 1
IncSkipped(i) ==
  /\ mpc = "batch" /\ pc[i] = "inc_skipped"
  /\ skipped' = loc[i].tmp + 1
  /\ lock' = [lock EXCEPT !.skipped = 0]
  /\ loc' = [loc EXCEPT ![i].tmp = 0]
  /\ pc' = [pc EXCEPT ![i] = "tick"]
  /\ UNCHANGED <<resize_vars, update_vars>>
  /\ UNCHANGED <<args, fs, dirs, fs0, image_files, mpc, calls, total_saved,
                 processed, pos, report>>

\* The closure returns: the locals of the call are gone; the result and
\* the path it wrote to are kept for the record.
Dropped(l) ==
  [InitLoc EXCEPT !.result = l.result, !.output_path = l.output_path]

\* pb.inc(1), after the match: every outcome reaches it.
Tick(i) ==
  /\ mpc = "batch" /\ pc[i] = "tick"
  /\ pos' = pos + 1
  /\ pc' = [pc EXCEPT ![i] = "done"]
  /\ loc' = [loc EXCEPT ![i] = Dropped(loc[i])]
  /\ UNCHANGED <<resize_vars, update_vars>>
  /\ UNCHANGED <<args, fs, dirs, fs0, image_files, mpc, calls,
                 total_saved, processed, skipped, lock, report>>

\* for_each has returned: read the three accumulators and print the summary.
MainFinish ==
  /\ mpc = "batch"
  /\ \A i \in Files : pc[i] = "done"
  /\ report' = [processed |-> processed, skipped |-> skipped,
                total_saved |-> total_saved]
  /\ mpc' = "done"
  /\ UNCHANGED <<resize_vars, update_vars>>
  /\ UNCHANGED <<args, fs, dirs, fs0, image_files, pc, loc, calls,
                 total_saved, processed, skipped, lock, pos>>

Next ==
  \/ MainScan
  \/ MainFinish
  \/ \E i \in Files :
       \/ Start(i) \/ Resolve(i) \/ Backup(i) \/ Decode(i) \/ Encode(i)
       \/ StatStaged(i) \/ Commit(i)
       \/ LockSaved(i) \/ AddSaved(i) \/ LockProcessed(i) \/ IncProcessed(i)
       \/ LockSkipped(i) \/ IncSkipped(i) \/ Tick(i)

Spec == Init /\ [][Next]_vars

\* The workers and main are threads that keep running: a step that stays
\* possible is eventually taken.
FairSpec == Spec /\ WF_vars(Next)

\* ------------------------------------------- main: one run after another
\* The program run again over the directory it worked on in place, with
\* backups: the files a run leaves behind are what the next run finds.
RunsCli ==
  {a \in Cli : /\ a.input = InDir /\ a.output = {} /\ a.backup
               /\ ~a.recursive /\ ~a.max_size}

RunsInit ==
  /\ ResizeIdle /\ UpdateIdle
  /\ args \in RunsCli
  /\ fs = InitFs({FileA, FileTxt}) /\ dirs = InitDirs({FileA, FileTxt})
  /\ fs0 = fs
  /\ image_files = <<>>
  /\ mpc = "main"
  /\ pc = <<>>
  /\ loc = <<>>
  /\ calls = <<>>
  /\ total_saved = 0
  /\ processed = 0
  /\ skipped = 0
  /\ lock = [total_saved |-> 0, processed |-> 0, skipped |-> 0]
  /\ pos = 0
  /\ report = [processed |-> 0, skipped |-> 0, total_saved |-> 0]

\* main has returned and the program is started again with the same
\* arguments: a new process, whose counters start at zero, over the files as
\* they are now. Runs that would find more than MaxFiles images are left out.
MainAgain ==
  /\ mpc \in {"done", "no_images", "not_supported", "error"}
  /\ Cardinality(scan_images(fs, dirs, args.input, args.recursive)) <= MaxFiles
  /\ mpc' = "main"
  /\ fs0' = fs
  /\ image_files' = <<>>
  /\ pc' = <<>>
  /\ loc' = <<>>
  /\ calls' = <<>>
  /\ total_saved' = 0
  /\ processed' = 0
  /\ skipped' = 0
  /\ lock' = [total_saved |-> 0, processed |-> 0, skipped |-> 0]
  /\ pos' = 0
  /\ report' = [processed |-> 0, skipped |-> 0, total_saved |-> 0]
  /\ UNCHANGED <<resize_vars, update_vars>>
  /\ UNCHANGED <<args, fs, dirs>>

RunsNext ==
  \/ MainScan
  \/ MainFinish
  \/ MainAgain
  \/ \E i \in Files :
       \/ Start(i) \/ Resolve(i) \/ Backup(i) \/ Decode(i) \/ Encode(i)
       \/ StatStaged(i) \/ Commit(i)
       \/ LockSaved(i) \/ AddSaved(i) \/ LockProcessed(i) \/ IncProcessed(i)
       \/ LockSkipped(i) \/ IncSkipped(i) \/ Tick(i)

RunsSpec == RunsInit /\ [][RunsNext]_vars

\* ------------------------------------- optimize_image called as a library
\* The files a caller may hand to optimize_image directly: every format of
\* the dispatch, an upper-case extension, a vector image, a format only the
\* image crate knows, a text file, a name without extension and a dot-file
\* (".png" is a stem, not an extension).
FileJpeg == << <<"in">>, <<"j", "jpeg">> >>
FileWebp == << <<"in">>, <<"w", "webp">> >>
FileSvg == << <<"in">>, <<"d", "svg">> >>
FileGif == << <<"in">>, <<"g", "gif">> >>
FileNoExt == << <<"in">>, <<"README">> >>
FileDot == << <<"in">>, <<"", "png">> >>

LibFiles ==
  {FileA, FileJpg, FileJpeg, FileWebp, FileSvg, FileGif, FileTxt, FileNoExt,
   FileDot}

LibCli ==
  [input : {InDir, SubDir}, output : {{}, {OutDir}}, backup : BOOLEAN,
   recursive : {FALSE}, max_size : BOOLEAN, no_parallel : {TRUE}]

\* One call optimize_image(input_path, args, input_dir) about to start.
LibInit ==
  /\ ResizeIdle /\ UpdateIdle
  /\ args \in LibCli
  /\ fs = InitFs(LibFiles) /\ dirs = InitDirs(LibFiles)
  /\ fs0 = fs
  /\ \E p \in LibFiles : image_files = <<p>>
  /\ mpc = "batch"
  /\ pc = <<"start">>
  /\ loc = <<InitLoc>>
  /\ calls = <<0>>
  /\ total_saved = 0
  /\ processed = 0
  /\ skipped = 0
  /\ lock = [total_saved |-> 0, processed |-> 0, skipped |-> 0]
  /\ pos = 0
  /\ report = [processed |-> 0, skipped |-> 0, total_saved |-> 0]

LibNext ==
  \E i \in Files :
    \/ Start(i) \/ Resolve(i) \/ Backup(i) \/ Decode(i) \/ Encode(i)
    \/ StatStaged(i) \/ Commit(i)

LibSpec == LibInit /\ [][LibNext]_vars

\* --------------------------------------------- main: argument validation
\* The bounds of u8, the type of jpeg_quality.
U8Max == 255

\* What Cli::parse() may hand to main, as far as the checks before the scan
\* look at it.
CliParsed ==
  [input : {{}, {InDir}, {FileA}, {FileSub}}, output : {{}},
   backup : {FALSE}, recursive : {FALSE}, max_size : {FALSE},
   no_parallel : {FALSE}, jpeg_quality : 0..U8Max, update : BOOLEAN]

CliInit ==
  /\ ResizeIdle /\ UpdateIdle
  /\ args \in CliParsed
  /\ fs = InitFs({FileA, FileTxt}) /\ dirs = {InDir}
  /\ fs0 = fs
  /\ image_files = <<>>
  /\ mpc = "parse"
  /\ pc = <<>> /\ loc = <<>> /\ calls = <<>>
  /\ total_saved = 0 /\ processed = 0 /\ skipped = 0
  /\ lock = [total_saved |-> 0, processed |-> 0, skipped |-> 0]
  /\ pos = 0
  /\ report = [processed |-> 0, skipped |-> 0, total_saved |-> 0]

\* if args.update { return update_self(); }
MainUpdate ==
  /\ mpc = "parse"
  /\ mpc' = IF args.update THEN "update_self" ELSE "input"
  /\ UNCHANGED <<resize_vars, update_vars>>
  /\ UNCHANGED <<args, fs, dirs, fs0, image_files, pc, loc, calls,
                 total_saved, processed, skipped, lock, pos, report>>

\* args.input.as_ref().ok_or_else(..)?
MainInput ==
  /\ mpc = "input"
  /\ mpc' = IF args.input = {} THEN "error_input" ELSE "quality"
  /\ UNCHANGED <<resize_vars, update_vars>>
  /\ UNCHANGED <<args, fs, dirs, fs0, image_files, pc, loc, calls,
                 total_saved, processed, skipped, lock, pos, report>>

\* if args.jpeg_quality > 100
QualityRejected(jpeg_quality) == jpeg_quality > 100

\* The quality check; past it main goes on to the existence check and the
\* scan.
MainQuality ==
  /\ mpc = "quality"
  /\ mpc' = IF QualityRejected(args.jpeg_quality) THEN "error_quality"
            ELSE "main"
  /\ UNCHANGED <<resize_vars, update_vars>>
  /\ UNCHANGED <<args, fs, dirs, fs0, image_files, pc, loc, calls,
                 total_saved, processed, skipped, lock, pos, report>>

CliNext == MainUpdate \/ MainInput \/ MainQuality

CliSpec == CliInit /\ [][CliNext]_vars

\* ------------------------------------------- the resize planner on its own
\* The examples of the planner's documentation and tests.
Examples ==
  {<<1200, 800, 600>>, <<800, 1200, 600>>, <<1000, 1000, 500>>,
   <<1333, 1000, 800>>, <<1001, 1000, 800>>, <<500, 300, 500>>}

\* The batch at rest.
BatchIdle ==
  /\ args = [input |-> InDir, output |-> {}, backup |-> FALSE,
             recursive |-> FALSE, max_size |-> FALSE, no_parallel |-> FALSE]
  /\ fs = <<>> /\ dirs = {} /\ fs0 = <<>>
  /\ image_files = <<>>
  /\ mpc = "idle"
  /\ pc = <<>> /\ loc = <<>> /\ calls = <<>>
  /\ total_saved = 0 /\ processed = 0 /\ skipped = 0
  /\ lock = [total_saved |-> 0, processed |-> 0, skipped |-> 0]
  /\ pos = 0
  /\ report = [processed |-> 0, skipped |-> 0, total_saved |-> 0]

ResizeInit ==
  /\ BatchIdle /\ UpdateIdle
  /\ \E d \in ((0..MaxDim) \X (0..MaxDim) \X (0..MaxDim)) \cup Examples :
       width = d[1] /\ height = d[2] /\ max_size = d[3]
  /\ new_dims = <<0, 0>>
  /\ resize_call = {}
  /\ rpc = "plan"

\* let (new_width, new_height) = calculate_resize_dimensions(width, height, max_size)
Plan ==
  /\ rpc = "plan"
  /\ new_dims' = calculate_resize_dimensions(width, height, max_size)
  /\ rpc' = "resize"
  /\ UNCHANGED <<batch_vars, update_vars, width, height, max_size, resize_call>>

\* if new_width != width || new_height != height { img.resize(new_width, new_height, ..) }
Resize ==
  /\ rpc = "resize"
  /\ resize_call' = IF new_dims # <<width, height>> THEN {new_dims} ELSE {}
  /\ rpc' = "resized"
  /\ UNCHANGED <<batch_vars, update_vars, width, height, max_size, new_dims>>

ResizeNext == Plan \/ Resize

ResizeSpec == ResizeInit /\ [][ResizeNext]_vars

\* ------------------------------------------------------------ the updater
\* The strings of the updater are sequences of characters.
Digits == <<"0", "1", "2", "3", "4", "5", "6", "7", "8", "9">>
IsDigit(c) == \E k \in DOMAIN Digits : Digits[k] = c
DigitValue(c) == (CHOOSE k \in DOMAIN Digits : Digits[k] = c) - 1

\* str::trim_start_matches(c): every leading c is removed.
RECURSIVE trim_start_matches(_, _)
trim_start_matches(s, c) ==
  IF s # <<>> /\ s[1] = c THEN trim_start_matches(Tail(s), c) ELSE s

\* str::split(c): the pieces between the separators, empty ones included.
RECURSIVE split(_, _)
split(s, c) ==
  IF \A k \in 1..Len(s) : s[k] # c THEN <<s>>
  ELSE LET k == CHOOSE j \in 1..Len(s) :
                  s[j] = c /\ \A m \in 1..(j - 1) : s[m] # c
       IN <<SubSeq(s, 1, k - 1)>> \o split(SubSeq(s, k + 1, Len(s)), c)

\* A parsed number is kept as its decimal digits without leading zeros: it
\* may exceed what an integer of the model holds.
RECURSIVE StripZeros(_)
StripZeros(ds) ==
  IF Len(ds) > 1 /\ ds[1] = "0" THEN StripZeros(Tail(ds)) ELSE ds

NumLess(a, b) ==
  \/ Len(a) < Len(b)
  \/ /\ Len(a) = Len(b)
     /\ \E k \in 1..Len(a) :
          /\ \A m \in 1..(k - 1) : a[m] = b[m]
          /\ DigitValue(a[k]) < DigitValue(b[k])

\* u32::MAX, 4294967295.
U32MaxDigits == <<"4", "2", "9", "4", "9", "6", "7", "2", "9", "5">>

\* Mutant of parse_u32: no upper limit.
parse_unbounded(part) ==
  LET ds == IF part # <<>> /\ part[1] = "+" THEN Tail(part) ELSE part
  IN IF ds # <<>> /\ \A k \in 1..Len(ds) : IsDigit(ds[k])
     THEN {StripZeros(ds)} ELSE {}

\* str::parse::<u32>: an optional '+', then at least one digit and nothing
\* else, and a value of at most u32::MAX.
parse_u32(part) ==
  LET ds == IF part # <<>> /\ part[1] = "+" THEN Tail(part) ELSE part
  IN IF /\ ds # <<>> /\ \A k \in 1..Len(ds) : IsDigit(ds[k])
        /\ ~NumLess(U32MaxDigits, StripZeros(ds))
     THEN {StripZeros(ds)} ELSE {}

\* The closure parse_version: every part must parse.
parse_version(v) ==
  LET parts == split(v, ".")
  IN IF \A k \in 1..Len(parts) : parse_u32(parts[k]) # {}
     THEN {[k \in 1..Len(parts) |-> CHOOSE n \in parse_u32(parts[k]) : TRUE]}
     ELSE {}

\* Mutant of compare_versions: further parts of the latest version do not
\* make it newer.
compare_versions_zip_only(current, latest) ==
  LET c == parse_version(trim_start_matches(current, "v"))
      l == parse_version(trim_start_matches(latest, "v"))
  IN IF c = {} \/ l = {} THEN [tag |-> "Err", newer |-> FALSE]
     ELSE LET cp == CHOOSE x \in c : TRUE
              lp == CHOOSE x \in l : TRUE
              n == IF Len(cp) < Len(lp) THEN Len(cp) ELSE Len(lp)
              diff == {k \in 1..n : cp[k] # lp[k]}
          IN IF diff # {}
             THEN LET k == CHOOSE j \in diff : \A m \in diff : j <= m
                  IN [tag |-> "Ok", newer |-> NumLess(cp[k], lp[k])]
             ELSE [tag |-> "Ok", newer |-> FALSE]

compare_versions(current, latest) ==
  LET c == parse_version(trim_start_matches(current, "v"))
      l == parse_version(trim_start_matches(latest, "v"))
  IN IF c = {} \/ l = {} THEN [tag |-> "Err", newer |-> FALSE]
     ELSE LET cp == CHOOSE x \in c : TRUE
              lp == CHOOSE x \in l : TRUE
              n == IF Len(cp) < Len(lp) THEN Len(cp) ELSE Len(lp)
              diff == {k \in 1..n : cp[k] # lp[k]}
          IN IF diff # {}
             THEN LET k == CHOOSE j \in diff : \A m \in diff : j <= m
                  IN [tag |-> "Ok", newer |-> NumLess(cp[k], lp[k])]
             ELSE [tag |-> "Ok", newer |-> Len(lp) > Len(cp)]

\* Longest version string drawn from the alphabet.
MaxVersionLen == 3

VersionAlphabet == {"v", "0", "1", ".", "x"}

\* The versions of the documentation and the tests, and parts at and beyond
\* u32::MAX.
VersionExamples ==
  {<<"1", ".", "0", ".", "0">>, <<"1", ".", "0", ".", "1">>,
   <<"v", "1", ".", "1", ".", "0">>, <<"2", ".", "0", ".", "0">>,
   <<"1", ".", "9", ".", "9">>, <<"1", ".", "x", ".", "0">>,
   <<"i", "n", "v", "a", "l", "i", "d">>, <<"+", "1", ".", "0">>,
   <<"1", ".", "0", ".", "4", "2", "9", "4", "9", "6", "7", "2", "9", "5">>,
   <<"1", ".", "0", ".", "4", "2", "9", "4", "9", "6", "7", "2", "9", "6">>}

VersionStrings ==
  UNION {[1..n -> VersionAlphabet] : n \in 0..MaxVersionLen} \cup VersionExamples

VersionInit ==
  /\ BatchIdle /\ ResizeIdle
  /\ upc = "idle" /\ target_os = <<"linux", "x86_64">> /\ current_exe = <<>>
  /\ release = {} /\ binary_data = {} /\ perms = <<>>
  /\ update_result = NoResult
  /\ cv_current \in VersionStrings /\ cv_latest \in VersionStrings
  /\ available = {} /\ reverse = {} /\ vpc = {}

VersionFrame ==
  UNCHANGED <<batch_vars, resize_vars, upc, target_os, current_exe, release,
              binary_data, perms, update_result, cv_current, cv_latest>>

\* compare_versions(current, latest)
CompareForward ==
  /\ "forward" \notin vpc
  /\ available' = {compare_versions(cv_current, cv_latest)}
  /\ vpc' = vpc \cup {"forward"}
  /\ UNCHANGED reverse
  /\ VersionFrame

\* compare_versions(latest, current)
CompareReverse ==
  /\ "reverse" \notin vpc
  /\ reverse' = {compare_versions(cv_latest, cv_current)}
  /\ vpc' = vpc \cup {"reverse"}
  /\ UNCHANGED available
  /\ VersionFrame

VersionNext == CompareForward \/ CompareReverse

VersionSpec == VersionInit /\ [][VersionNext]_vars

\* env!("CARGO_PKG_VERSION") of the build that runs.
CURRENT_VERSION == <<"1", ".", "0", ".", "0">>

\* get_platform_target on (OS, ARCH).
get_platform_target(os_arch) ==
  CASE os_arch = <<"linux", "x86_64">> -> {"x86_64-unknown-linux-gnu"}
    [] os_arch = <<"linux", "aarch64">> -> {"aarch64-unknown-linux-gnu"}
    [] os_arch = <<"macos", "x86_64">> -> {"x86_64-apple-darwin"}
    [] os_arch = <<"macos", "aarch64">> -> {"aarch64-apple-darwin"}
    [] os_arch = <<"windows", "x86_64">> -> {"x86_64-pc-windows-msvc"}
    [] OTHER -> {}

\* format!("image-optimizer-{target}")
binary_name(target) == <<"image-optimizer-", target>>

\* #[cfg(unix)]
Unix(os_arch) == os_arch[1] \in {"linux", "macos"}

Platforms ==
  {<<"linux", "x86_64">>, <<"macos", "aarch64">>, <<"windows", "x86_64">>,
   <<"windows", "aarch64">>}

Tags ==
  {<<"v", "1", ".", "0", ".", "1">>, <<"1", ".", "0", ".", "0">>,
   <<"v", "0", ".", "9">>, <<"1", ".", "0", ".", "0", ".", "1">>,
   <<"v", "1", ".", "x">>, <<>>}

AllAssets == {binary_name(t) : t \in UNION {get_platform_target(o) : o \in Platforms}}

\* What the latest-release endpoint may answer.
Releases ==
  [tag_name : Tags,
   assets : {AllAssets, {binary_name("x86_64-unknown-linux-gnu")}, {}}]

Exe == << <<"bin">>, <<"image-optimizer">> >>
ExeExe == << <<"bin">>, <<"image-optimizer", "exe">> >>

Installed == [kind |-> "exe", of |-> CURRENT_VERSION, size |-> OrigSize]
OldBackup == [kind |-> "exe", of |-> <<"0", ".", "9">>, size |-> OrigSize]
Downloaded(tag) == [kind |-> "exe", of |-> tag, size |-> OrigSize]
\* What a copy or a write that failed midway leaves.
Partial(c) == [kind |-> "partial", of |-> c.of, size |-> 0]

UpdateErr(m) == [tag |-> "Err", n |-> 0, msg |-> m]

\* main was started with --update; the executable is installed, possibly
\* next to the backup and the temporary file of an earlier update.
UpdateInit ==
  /\ ResizeIdle
  /\ args \in {a \in CliParsed :
                 a.update /\ a.input = {} /\ a.jpeg_quality = 85}
  /\ mpc = "update_self"
  /\ \E exe \in {Exe, ExeExe}, old \in SUBSET {"bak", "tmp"} :
       /\ current_exe = exe
       /\ fs = [p \in {exe} \cup {with_extension(exe, <<e>>) : e \in old} |->
                  IF p = exe THEN Installed ELSE OldBackup]
       /\ perms = [p \in {exe} \cup {with_extension(exe, <<e>>) : e \in old} |->
                     IF p = with_extension(exe, <<"tmp">>) THEN "644" ELSE "755"]
  /\ fs0 = fs
  /\ dirs = {<< <<"bin">> >>}
  /\ target_os \in Platforms
  /\ upc = "check" /\ release = {} /\ binary_data = {}
  /\ update_result = NoResult
  /\ cv_current = <<>> /\ cv_latest = <<>> /\ available = {} /\ reverse = {}
  /\ vpc = {}
  /\ image_files = <<>>
  /\ pc = <<>> /\ loc = <<>> /\ calls = <<>>
  /\ total_saved = 0 /\ processed = 0 /\ skipped = 0
  /\ lock = [total_saved |-> 0, processed |-> 0, skipped |-> 0]
  /\ pos = 0
  /\ report = [processed |-> 0, skipped |-> 0, total_saved |-> 0]

\* What no step of update_self touches.
UpdateFrame ==
  UNCHANGED <<resize_vars, args, dirs, fs0, image_files, mpc, pc, loc, calls,
              total_saved, processed, skipped, lock, pos, report,
              target_os, current_exe, cv_current, cv_latest, available,
              reverse,
              vpc>>

UpdateReturn(r) == upc' = "done" /\ update_result' = r

\* client.get(url).send() and response.json()
CheckRelease ==
  /\ upc = "check"
  /\ \/ /\ \E m \in {"Failed to check for updates",
                     "Failed to parse release information"} :
             UpdateReturn(UpdateErr(m))
        /\ UNCHANGED release
     \/ /\ \E r \in Releases : release' = {r}
        /\ upc' = "compare"
        /\ UNCHANGED update_result
  /\ UNCHANGED <<fs, perms, binary_data>>
  /\ UpdateFrame

\* if !compare_versions(CURRENT_VERSION, &release.tag_name)? { return Ok(()) }
CompareVersions ==
  /\ upc = "compare"
  /\ LET r == CHOOSE x \in release : TRUE
         cv == compare_versions(CURRENT_VERSION, r.tag_name)
     IN IF cv.tag = "Err" THEN UpdateReturn(UpdateErr("Invalid version format"))
        ELSE IF ~cv.newer THEN UpdateReturn(Ok(0))
        ELSE upc' = "target" /\ UNCHANGED update_result
  /\ UNCHANGED <<fs, perms, binary_data, release>>
  /\ UpdateFrame

\* get_platform_target()? and the search for the asset of that name.
FindAsset ==
  /\ upc = "target"
  /\ LET r == CHOOSE x \in release : TRUE
         target == get_platform_target(target_os)
     IN IF target = {} THEN UpdateReturn(UpdateErr("Unsupported platform"))
        ELSE IF \A t \in target : binary_name(t) \notin r.assets
        THEN UpdateReturn(UpdateErr("No binary found for platform"))
        ELSE upc' = "download" /\ UNCHANGED update_result
  /\ UNCHANGED <<fs, perms, binary_data, release>>
  /\ UpdateFrame

\* client.get(&asset.browser_download_url).send()?.bytes()?
Download ==
  /\ upc = "download"
  /\ \/ /\ \E m \in {"Failed to download update",
                     "Failed to read update data"} :
             UpdateReturn(UpdateErr(m))
        /\ UNCHANGED binary_data
     \/ /\ binary_data' = {Downloaded((CHOOSE x \in release : TRUE).tag_name)}
        /\ upc' = "exe"
        /\ UNCHANGED update_result
  /\ UNCHANGED <<fs, perms, release>>
  /\ UpdateFrame

\* get_current_executable()?
CurrentExe ==
  /\ upc = "exe"
  /\ \/ UpdateReturn(UpdateErr("Failed to get current executable path"))
     \/ upc' = "backup" /\ UNCHANGED update_result
  /\ UNCHANGED <<fs, perms, binary_data, release>>
  /\ UpdateFrame

\* std::fs::copy(&current_exe, &bak): contents and mode.
CreateBackup ==
  /\ upc = "backup"
  /\ LET bak == with_extension(current_exe, <<"bak">>)
     IN \/ /\ UpdateReturn(UpdateErr("Failed to create backup"))
           /\ \/ UNCHANGED <<fs, perms>>
              \/ /\ fs' = Put(fs, bak, Partial(fs[current_exe]))
                 /\ perms' = Put(perms, bak, perms[current_exe])
        \/ /\ fs' = Put(fs, bak, fs[current_exe])
           /\ perms' = Put(perms, bak, perms[current_exe])
           /\ upc' = "write"
           /\ UNCHANGED update_result
  /\ UNCHANGED <<binary_data, release>>
  /\ UpdateFrame

\* The mode of a file that std::fs::write created or truncated.
WrittenMode(p) == IF p \in DOMAIN perms THEN perms[p] ELSE "644"

\* std::fs::write(&temp_exe, binary_data)
WriteTemp ==
  /\ upc = "write"
  /\ LET temp_exe == with_extension(current_exe, <<"tmp">>)
         data == CHOOSE x \in binary_data : TRUE
     IN \/ /\ UpdateReturn(UpdateErr("Failed to write updated binary"))
           /\ \/ UNCHANGED <<fs, perms>>
              \/ /\ fs' = Put(fs, temp_exe, Partial(data))
                 /\ perms' = Put(perms, temp_exe, WrittenMode(temp_exe))
        \/ /\ fs' = Put(fs, temp_exe, data)
           /\ perms' = Put(perms, temp_exe, WrittenMode(temp_exe))
           /\ upc' = "rename"
           /\ UNCHANGED update_result
  /\ UNCHANGED <<binary_data, release>>
  /\ UpdateFrame

\* Where update_self goes after the rename: the #[cfg(unix)] block, or the
\* end.
AfterInstall(os_arch) == IF Unix(os_arch) THEN "perms" ELSE "done"

\* std::fs::rename(&temp_exe, &current_exe): the temporary file, with its
\* mode, takes the place of the executable.
Install ==
  /\ upc = "rename"
  /\ LET temp_exe == with_extension(current_exe, <<"tmp">>)
     IN \/ /\ UpdateReturn(UpdateErr("Failed to install updated binary"))
           /\ UNCHANGED <<fs, perms>>
        \/ /\ fs' = Rename(fs, temp_exe, current_exe)
           /\ perms' = Rename(perms, temp_exe, current_exe)
           /\ upc' = AfterInstall(target_os)
           /\ update_result' = IF upc' = "done" THEN Ok(0) ELSE update_result
  /\ UNCHANGED <<binary_data, release>>
  /\ UpdateFrame

\* metadata(&current_exe)?, perms.set_mode(0o755), set_permissions(..)?
SetPermissions ==
  /\ upc = "perms"
  /\ \/ /\ UpdateReturn(UpdateErr("permissions"))
        /\ UNCHANGED perms
     \/ /\ perms' = Put(perms, current_exe, "755")
        /\ UpdateReturn(Ok(0))
  /\ UNCHANGED <<fs, binary_data, release>>
  /\ UpdateFrame

UpdateNext ==
  \/ CheckRelease \/ CompareVersions \/ FindAsset \/ Download \/ CurrentExe
  \/ CreateBackup \/ WriteTemp \/ Install \/ SetPermissions

UpdateSpec == UpdateInit /\ [][UpdateNext]_vars

\* ================================================================ claims
Input(i) == image_files[i]
Staged(i) == Norm(loc[i].output_path)
Returned(i) == loc[i].result.tag # "none"
ReturnedOk(i) == loc[i].result.tag = "Ok"
ReturnedErr(i) == loc[i].result.tag = "Err"

\* C1, as claimed: in place, a file whose optimize_image has returned an
\* error still holds, at its own path, the bytes it had before the run.
C1_ErrorLeavesOriginal ==
  is_in_place =>
    \A i \in Files :
      ReturnedErr(i) =>
        Exists(fs, Input(i)) /\ fs[Input(i)] = fs0[Input(i)]

\* C2, as claimed: the path an encoder writes to is never the path of a
\* discovered input file, in either mode.
C2_StagingIsNoInput ==
  \A i \in Files :
    loc[i].output_path # <<>> =>
      \A j \in Files : Staged(i) # Input(j)

\* C3: in place, a commit whose staged size is strictly smaller than the
\* original size either fails and changes nothing, or renames the staged
\* file over the original (the original path then holds the staged bytes and
\* the staging path is gone) and returns original_size - optimized_size >= 1.
C3_SmallerIsRenamed ==
  [][\A i \in Files :
       (/\ is_in_place
        /\ pc[i] = "commit" /\ pc'[i] # "commit"
        /\ loc[i].optimized_size < loc[i].original_size)
       => IF loc'[i].result.tag = "Ok"
          THEN /\ loc'[i].result.n = loc[i].original_size - loc[i].optimized_size
               /\ loc'[i].result.n >= 1
               /\ Exists(fs', Input(i))
               /\ fs'[Input(i)] = fs[Staged(i)]
               /\ ~Exists(fs', Staged(i))
          ELSE fs' = fs]_vars

C3_Witness ==
  \E i \in Files :
    /\ is_in_place /\ ReturnedOk(i)
    /\ loc[i].result.n = OrigSize - 1
    /\ Exists(fs, Input(i))
    /\ fs[Input(i)].kind = "enc" /\ fs[Input(i)].of = Input(i)
    /\ fs[Input(i)].size = 1
    /\ ~Exists(fs, Staged(i))

\* C4: in place, a commit whose staged size is equal to or larger than the
\* original size either fails and changes nothing, or removes the staged
\* file, changes no other file (the original among them) and returns 0.
C4_NotSmallerIsDiscarded ==
  [][\A i \in Files :
       (/\ is_in_place
        /\ pc[i] = "commit" /\ pc'[i] # "commit"
        /\ loc[i].optimized_size >= loc[i].original_size)
       => IF loc'[i].result.tag = "Ok"
          THEN /\ loc'[i].result.n = 0
               /\ Staged(i) # Input(i)
               /\ ~Exists(fs', Staged(i))
               /\ \A q \in (DOMAIN fs) \ {Staged(i)} :
                    Exists(fs', q) /\ fs'[q] = fs[q]
               /\ DOMAIN fs' \subseteq DOMAIN fs
          ELSE fs' = fs]_vars

C4_Witness ==
  \E i \in Files :
    /\ is_in_place /\ ReturnedOk(i)
    /\ loc[i].result.n = 0
    /\ loc[i].optimized_size = loc[i].original_size
    /\ Exists(fs, Input(i)) /\ fs[Input(i)] = fs0[Input(i)]
    /\ ~Exists(fs, Staged(i))

\* The path ensure_output_dir resolves for file i (an Option).
OutputOf(i) ==
  {Norm(o) : o \in output_file_path(unwrap_or(args.output, <<>>), args.input,
                                    Input(i))}

RECURSIVE SumSaved(_)
SumSaved(S) ==
  IF S = {} THEN 0
  ELSE LET i == CHOOSE x \in S : TRUE IN loc[i].result.n + SumSaved(S \ {i})

Shrunk == {i \in Files : ReturnedOk(i) /\ loc[i].result.n > 0}
NotImproved == {i \in Files : ReturnedOk(i) /\ loc[i].result.n = 0}
Failed == {i \in Files : ReturnedErr(i)}

\* C6: when the batch has finished, processed counts the files that
\* returned Ok(n) with n > 0, total_saved is the sum of those n, skipped
\* counts the files that returned Ok(0), and a failed file is in neither.
C6_CountersMatchOutcomes ==
  mpc = "done" =>
    /\ report.processed = Cardinality(Shrunk)
    /\ report.total_saved = SumSaved(Shrunk)
    /\ report.skipped = Cardinality(NotImproved)
    /\ report.processed + report.skipped =
         Len(image_files) - Cardinality(Failed)
    /\ processed = report.processed
    /\ skipped = report.skipped
    /\ total_saved = report.total_saved

C6_Witness ==
  /\ mpc = "done" /\ ~args.no_parallel
  /\ Cardinality(Shrunk) = 1 /\ Cardinality(Failed) = 1
  /\ report.processed = 1 /\ report.skipped = 0
  /\ report.total_saved = OrigSize - 1

\* C7: each accumulator is read and written only by the worker that holds
\* its lock, at most one worker is inside an update, the value a worker read
\* is still the accumulator's value when it writes, and every finished
\* update is in the accumulator.
InSaved(i) == pc[i] = "add_saved"
InProcessed(i) == pc[i] = "inc_processed"
InSkipped(i) == pc[i] = "inc_skipped"
AddedSaved == {i \in Shrunk : pc[i] \in {"lock_processed", "inc_processed", "tick", "done"}}
Counted == {i \in Files : ReturnedOk(i) /\ pc[i] \in {"tick", "done"}}

C7_UpdatesUnderLock ==
  /\ \A i, j \in Files :
       i # j => /\ ~(InSaved(i) /\ InSaved(j))
                /\ ~(InProcessed(i) /\ InProcessed(j))
                /\ ~(InSkipped(i) /\ InSkipped(j))
  /\ \A i \in Files :
       /\ InSaved(i) => lock.total_saved = i /\ loc[i].tmp = total_saved
       /\ InProcessed(i) => lock.processed = i /\ loc[i].tmp = processed
       /\ InSkipped(i) => lock.skipped = i /\ loc[i].tmp = skipped
  /\ total_saved = SumSaved(AddedSaved)
  /\ processed = Cardinality(Counted \cap Shrunk)
  /\ skipped = Cardinality(Counted \cap NotImproved)

C7_Witness ==
  \E i, j \in Files :
    /\ i # j
    /\ InSaved(i) /\ pc[j] = "lock_saved"
    /\ lock.total_saved = i

\* C8: once the batch has started, every discovered file is handed to
\* optimize_image exactly once and the batch finishes, in sequential and in
\* parallel mode, whatever the other files returned.
C8_BatchCompletes ==
  /\ [](\A i \in Files : calls[i] <= 1)
  /\ [](mpc = "done" => \A i \in Files : calls[i] = 1 /\ Returned(i))
  /\ (mpc = "batch") ~> (mpc = "done")

C8_Witness ==
  /\ mpc = "done" /\ args.no_parallel
  /\ Len(image_files) = 2
  /\ ReturnedErr(1) /\ ReturnedOk(2)
  /\ calls = <<1, 1>>

\* The staging path optimize_image derives for file i (an Option: path
\* resolution may fail).
StagingOf(i) == IF is_in_place THEN {staging_path(Input(i))} ELSE OutputOf(i)

\* C9: two distinct discovered files never have the same staging path, and
\* the path a worker writes to is the one derived from its own file.
C9_StagingPathsDistinct ==
  /\ \A i, j \in Files : i # j => StagingOf(i) \cap StagingOf(j) = {}
  /\ \A i \in Files : loc[i].output_path # <<>> => Staged(i) \in StagingOf(i)
  /\ \A i, j \in Files :
       (i # j /\ loc[i].output_path # <<>> /\ loc[j].output_path # <<>>)
         => Staged(i) # Staged(j)

C9_Witness ==
  \E i, j \in Files :
    /\ i # j /\ ~args.no_parallel
    /\ pc[i] = "encode" /\ pc[j] = "encode"
    /\ file_name(Input(i)) = file_name(Input(j))
    /\ Staged(i) # Staged(j)

BackupOf(i) == backup_path(Input(i))
PastBackup(i) == pc[i] \in {"decode", "encode", "stat", "commit"}

\* C10, as claimed: with --backup in place, from the end of the backup
\* step until optimize_image returns, "<name>.<ext>.bak" exists and holds the
\* bytes the original had before the run; a failed backup copy returns an
\* error at once and changes no file; with an output directory no ".bak"
\* file is ever created.
C10_BackupBeforeEncode ==
  /\ [](\A i \in Files :
          (args.backup /\ is_in_place /\ PastBackup(i)) =>
             Exists(fs, BackupOf(i)) /\ fs[BackupOf(i)] = fs0[Input(i)])
  /\ [][\A i \in Files :
          (pc[i] = "backup" /\ pc'[i] \notin {"backup", "decode", "encode"}) =>
             /\ loc'[i].result.tag = "Err"
             /\ ~loc'[i].img
             /\ fs' = fs]_vars
  /\ [](~is_in_place => DOMAIN fs \subseteq DOMAIN fs0 \cup
          {Staged(i) : i \in {j \in Files : loc[j].output_path # <<>>}})
  /\ [](\A i \in Files : (~is_in_place \/ ~args.backup) => pc[i] # "backup")

\* The files optimize_image may have written besides the original: the
\* staging or output file and the backup.
OwnFiles(i) ==
  {BackupOf(i)} \cup (IF loc[i].output_path # <<>> THEN {Staged(i)} ELSE {})

\* The encoder the claim names for file i, from its extension.
ClaimedEncoder(i) ==
  LET e == unwrap_or(extension(Input(i)), "") IN
  IF e \in {"jpg", "JPG", "jpeg"} THEN "jpeg"
  ELSE IF e \in {"png", "PNG"} THEN "png"
  ELSE IF e = "webp" THEN "webp"
  ELSE "none"

NoEncoder(i) == ClaimedEncoder(i) = "none"

\* C11, as claimed: a file is only ever handed to the encoder its
\* lower-cased extension selects (jpg/jpeg, png, webp); for any other
\* extension, or none, optimize_image returns the 'Unsupported file format'
\* error, no encoder was entered and the original is unchanged.
C11_DispatchByExtension ==
  \A i \in Files :
    /\ loc[i].encoder \in {"none", ClaimedEncoder(i)}
    /\ pc[i] \in {"stat", "commit"} => loc[i].encoder # "none"
    /\ (NoEncoder(i) /\ Returned(i)) =>
         /\ loc[i].result.msg = "Unsupported file format"
         /\ loc[i].encoder = "none"
         /\ fs[Input(i)] = fs0[Input(i)]

\* C11, amended: a file is only ever handed to the encoder its lower-cased
\* extension selects; for any other extension, or none, optimize_image
\* returns an error, no encoder was entered, the original is unchanged and
\* no staging or output file was written. The error is 'Unsupported file
\* format' whenever the dispatch is reached; a step before the dispatch
\* (metadata, path resolution, backup, or image::open under max_size, which
\* rejects an extension it knows no decoder for) returns its own error.
C11_DispatchOrEarlierError ==
  /\ [](\A i \in Files :
          /\ loc[i].encoder \in {"none", ClaimedEncoder(i)}
          /\ pc[i] \in {"stat", "commit"} => loc[i].encoder # "none"
          /\ (NoEncoder(i) /\ Returned(i)) =>
               /\ ReturnedErr(i)
               /\ loc[i].encoder = "none"
               /\ fs[Input(i)] = fs0[Input(i)]
               /\ DOMAIN fs \subseteq DOMAIN fs0 \cup {BackupOf(i)})
  /\ [][\A i \in Files :
          (NoEncoder(i) /\ pc[i] = "encode" /\ pc'[i] # "encode") =>
             /\ loc'[i].result = Err("unsupported")
             /\ fs' = fs]_vars

C11_Witness ==
  \E i \in Files :
    /\ Input(i) = FileGif /\ loc[i].img /\ args.backup
    /\ loc[i].result.msg = "Unsupported file format"
    /\ Exists(fs, BackupOf(i))
    /\ fs[Input(i)] = fs0[Input(i)]

\* C12, as claimed: discovery returns svg files as candidates, and
\* optimize_image hands a file with extension svg to the SVG optimizer
\* instead of rejecting its format.
C12_SvgIsOptimized ==
  /\ FileSvg \in scan_images(fs0, dirs, InDir, FALSE)
  /\ \A i \in Files :
       (Format(Input(i)) = "svg" /\ Returned(i)) =>
          /\ loc[i].result.msg # "Unsupported file format"
          /\ loc[i].encoder = "svg"

\* C13, as claimed: in place, a run leaves every file it was given either
\* byte-identical or replaced by a strictly smaller file, so that over
\* successive runs no file's size ever increases.
C13_RunNeverGrowsFile ==
  (is_in_place /\ mpc = "done") =>
    \A i \in Files :
      /\ Exists(fs, Input(i))
      /\ \/ fs[Input(i)] = fs0[Input(i)]
         \/ fs[Input(i)].size < fs0[Input(i)].size

Planned == rpc \in {"resize", "resized"}
NeedsResize == Max(width, height) > max_size

\* v * max_size / longer edge, rounded half away from zero, in exact
\* arithmetic.
ExactRound(v) ==
  (2 * v * max_size + Max(width, height)) \div (2 * Max(width, height))

\* Twice the distance between out and v * max_size / longer edge, in units
\* of 1 / longer edge.
TwiceOff(out, v) ==
  LET d == 2 * out * Max(width, height) - 2 * v * max_size IN
  IF d >= 0 THEN d ELSE 0 - d

\* v * max_size / longer edge lies exactly half-way between two integers.
Tie(v) == (2 * v * max_size) % (2 * Max(width, height)) = Max(width, height)

\* C14: when the longer edge is at most max_size, the boundary included,
\* the planner returns (width, height) unchanged and optimize_image does not
\* resize.
C14_FitsIsUnchanged ==
  (Planned /\ ~NeedsResize) =>
    /\ new_dims = <<width, height>>
    /\ rpc = "resized" => resize_call = {}

C14_Witness ==
  /\ rpc = "resized"
  /\ width = max_size /\ height > 0 /\ height < width
  /\ new_dims = <<width, height>>
  /\ resize_call = {}

C16_NotClamped ==
  /\ (Planned /\ NeedsResize) =>
       /\ 2 * width * max_size < Max(width, height) => new_dims[1] = 0
       /\ 2 * height * max_size < Max(width, height) => new_dims[2] = 0
  /\ Planned =>
       /\ width = 0 => new_dims[1] = 0
       /\ height = 0 => new_dims[2] = 0
  /\ rpc = "resized" =>
       resize_call = IF new_dims # <<width, height>> THEN {new_dims} ELSE {}

C16_Witness ==
  /\ rpc = "resized"
  /\ width > 0 /\ height > 0 /\ max_size > 0
  /\ new_dims[2] = 0
  /\ resize_call = {new_dims}

Ticked == {i \in Files : pc[i] = "done"}

\* C17: the progress position is the number of files whose processing has
\* completed, whatever their outcome, so it equals the number of discovered
\* files when the batch ends; it moves by one, at the end of a file's
\* closure, and that step changes no counter and no lock.
C17_OneTickPerFile ==
  /\ [](pos = Cardinality(Ticked))
  /\ [](mpc = "done" => pos = Len(image_files))
  /\ [][pos' # pos =>
          /\ pos' = pos + 1
          /\ \E i \in Files : pc[i] = "tick" /\ pc'[i] = "done"
          /\ UNCHANGED <<total_saved, processed, skipped, lock>>]_vars
  /\ [][\A i \in Files :
          (pc[i] # "done" /\ pc'[i] = "done") => pos' = pos + 1]_vars

C17_Witness ==
  /\ mpc = "done" /\ pos = 2 /\ Len(image_files) = 2
  /\ Failed # {} /\ NotImproved # {}
  /\ report.skipped = 1 /\ report.processed = 0

\* C18, as claimed: main goes on to the scan only with a quality between 1
\* and 100; every other value, 0 included, ends in the quality error.
C18_QualityOutsideRangeIsError ==
  /\ mpc = "main" => args.jpeg_quality \in 1..100
  /\ mpc = "error_quality" => args.jpeg_quality \notin 1..100

\* C19: when discovery finds nothing below an existing input, main returns
\* Ok after one of two messages (the input is a file: not a supported image;
\* otherwise: no images in the directory), optimize_image was never called
\* and no file changed; the batch is entered only with at least one file.
C19_EmptyIsSuccess ==
  /\ mpc \in {"not_supported", "no_images"} =>
       /\ image_files = <<>> /\ calls = <<>> /\ pos = 0
       /\ fs = fs0
       /\ scan_images(fs0, dirs, args.input, args.recursive) = {}
       /\ Exists(fs0, args.input) \/ args.input \in dirs
       /\ mpc = "not_supported" <=> Exists(fs0, args.input)
  /\ mpc \in {"batch", "done"} => image_files # <<>>
  /\ mpc = "error" => ~(Exists(fs0, args.input) \/ args.input \in dirs)

C19_Witness ==
  /\ mpc = "not_supported"
  /\ args.input = FileTxt
  /\ image_files = <<>>

BackupPath == with_extension(current_exe, <<"bak">>)

\* C20, as claimed: update_self is atomic. When it returns an error the
\* executable has the contents and the mode it had before, and whenever the
\* executable differs from the original the backup holds the original.
C20_UpdateIsAtomic ==
  /\ update_result.tag = "Err" =>
       /\ fs[current_exe] = fs0[current_exe]
       /\ perms[current_exe] = "755"
  /\ fs[current_exe] # fs0[current_exe] =>
       /\ Exists(fs, BackupPath)
       /\ fs[BackupPath] = fs0[current_exe]
       /\ perms[BackupPath] = "755"

\* The claim's reading of a version: the parts between the dots once the
\* leading 'v's are gone, a part being a number when it is a run of digits,
\* with or without a sign in front.
ClaimedParts(v) == split(trim_start_matches(v, "v"), ".")
Unsigned(part) == IF part # <<>> /\ part[1] = "+" THEN Tail(part) ELSE part
IsNumber(part) ==
  Unsigned(part) # <<>> /\ \A k \in 1..Len(Unsigned(part)) : IsDigit(Unsigned(part)[k])
AllNumbers(v) == \A k \in 1..Len(ClaimedParts(v)) : IsNumber(ClaimedParts(v)[k])
FitsU32(part) == ~NumLess(U32MaxDigits, StripZeros(Unsigned(part)))
AllU32(v) ==
  AllNumbers(v) /\ \A k \in 1..Len(ClaimedParts(v)) : FitsU32(ClaimedParts(v)[k])
SamePart(a, b) == StripZeros(Unsigned(a)) = StripZeros(Unsigned(b))
LessPart(a, b) == NumLess(StripZeros(Unsigned(a)), StripZeros(Unsigned(b)))

\* Left to right: the first part that differs decides, and a version that
\* continues where the other ends is the newer one.
Newer(c, l) ==
  LET cp == ClaimedParts(c)
      lp == ClaimedParts(l)
  IN \/ \E k \in 1..Len(cp) :
          /\ k <= Len(lp)
          /\ \A m \in 1..(k - 1) : SamePart(cp[m], lp[m])
          /\ LessPart(cp[k], lp[k])
     \/ /\ Len(cp) < Len(lp)
        /\ \A m \in 1..Len(cp) : SamePart(cp[m], lp[m])

Forward == CHOOSE r \in available : TRUE
Backward == CHOOSE r \in reverse : TRUE

ClaimedExtensions == {"jpg", "jpeg", "png", "webp", "JPG", "PNG"}
Expected ==
  {p \in DOMAIN fs0 :
     /\ \E e \in extension(p) : e \in ClaimedExtensions
     /\ \/ p = args.input
        \/ /\ args.input \in dirs
           /\ IsPrefix(args.input, p)
           /\ (args.recursive \/ Len(p) = Len(args.input) + 1)}

\* C22: discovery returns exactly the regular files in scope whose
\* extension, lower-cased, is jpg, jpeg, png or webp, each once; nothing for
\* a single unsupported file or a path that does not exist; and no file it
\* returned is rejected by the dispatch of optimize_image.
C22_DiscoveredAreDispatched ==
  /\ mpc \notin {"main", "error"} =>
       /\ {image_files[i] : i \in Files} = Expected
       /\ Len(image_files) = Cardinality(Expected)
  /\ ~(Exists(fs0, args.input) \/ args.input \in dirs) =>
       scan_images(fs0, dirs, args.input, args.recursive) = {}
  /\ args.input = FileTxt => image_files = <<>>
  /\ \A i \in Files :
       /\ loc[i].result.msg # "Unsupported file format"
       /\ pc[i] \in {"stat", "commit"} => loc[i].encoder # "none"

C22_Witness ==
  /\ args.input = InDir
  /\ Cardinality(Expected) = 2
  /\ \E i \in Files : Input(i) = FileJpg /\ ReturnedOk(i) /\ loc[i].encoder = "jpeg"

LongerEdge(c) == Max(c.dims[1], c.dims[2])
Oversized(i) == LongerEdge(fs0[Input(i)]) > MaxEdge
\* The file a call leaves as its result: the original path in place, the
\* output file otherwise.
ResultFile(i) == IF is_in_place THEN Input(i) ELSE Staged(i)

\* C23, as claimed: with max_size set, once optimize_image has returned Ok
\* for an image whose longer edge exceeded max_size, the resulting file has
\* a longer edge of at most max_size.
C23_ResultFitsMaxSize ==
  \A i \in Files :
    (args.max_size /\ ReturnedOk(i) /\ Oversized(i)) =>
      /\ Exists(fs, ResultFile(i))
      /\ LongerEdge(fs[ResultFile(i)]) <= MaxEdge

PastDecode(i) == pc[i] \in {"encode", "stat", "commit"} \/ loc[i].encoder # "none"
EncoderEntered(i) == loc[i].encoder # "none"
SourceDims(i) == fs0[Input(i)].dims
ResizePlan(i) ==
  calculate_resize_dimensions(SourceDims(i)[1], SourceDims(i)[2], MaxEdge)

\* C24: with a max edge configured the encoder is handed decoded pixels,
\* resized to the plan exactly when the plan differs from the original
\* dimensions and unresized otherwise, and does not read the input file;
\* without one it is handed no pixels and reads the input file itself. What
\* the encoder writes has the dimensions of the pixels it used.
C24_PixelSource ==
  \A i \in Files :
    /\ PastDecode(i) =>
         IF args.max_size
         THEN /\ loc[i].img
              /\ loc[i].resized <=> ResizePlan(i) # SourceDims(i)
              /\ loc[i].img_dims =
                   IF loc[i].resized THEN ResizePlan(i) ELSE SourceDims(i)
         ELSE ~loc[i].img
    /\ EncoderEntered(i) => (loc[i].read_input <=> ~args.max_size)
    /\ (pc[i] = "stat" /\ Staged(i) # Input(i)) =>
         fs[Staged(i)].dims =
           IF args.max_size THEN loc[i].img_dims ELSE SourceDims(i)

C24_Witness ==
  /\ args.max_size /\ pc[1] = "stat"
  /\ Input(1) = FileA
  /\ loc[1].img /\ loc[1].resized /\ ~loc[1].read_input
  /\ ResizePlan(1) # SourceDims(1)
  /\ fs[Staged(1)].dims = ResizePlan(1)

\* The file is not below the input root handed to optimize_image.
Outside(i) ==
  ~(Len(args.input) <= Len(Input(i))
    /\ \A k \in 1..Len(args.input) : Input(i)[k] = args.input[k])

\* C25: with an output directory, a file that is not under the input root
\* never gets past path resolution: the call returns an error, and no
\* directory was created, nothing was decoded or encoded and no file was
\* written.
C25_OutsideRootFailsEarly ==
  \A i \in Files :
    (~is_in_place /\ Outside(i)) =>
      /\ pc[i] \notin {"backup", "decode", "encode", "stat", "commit"}
      /\ Returned(i) => ReturnedErr(i)
      /\ ~loc[i].img /\ loc[i].encoder = "none" /\ ~loc[i].read_input
      /\ loc[i].output_path = <<>>
      /\ fs = fs0
      /\ dirs = InitDirs(DOMAIN fs0)

C25_Witness ==
  /\ ~is_in_place /\ Outside(1)
  /\ Input(1) = FileA /\ args.input = SubDir
  /\ loc[1].original_size = OrigSize
  /\ ReturnedErr(1)

Resolved(i) == ~is_in_place /\ loc[i].output_path # <<>>
OutputRoot == unwrap_or(args.output, <<>>)
\* The file's path relative to the input root main passes, args.input.
Relative(i) == SubSeq(Input(i), Len(args.input) + 1, Len(Input(i)))

\* C26, as claimed: with an output directory, the resolved output path of
\* a discovered file is the output directory followed by the file's path
\* relative to the input root, a path strictly inside the output directory
\* that ends in the input file's name, for a directory input and for a
\* single-file input alike.
C26_OutputPathShape ==
  \A i \in Files :
    Resolved(i) =>
      /\ loc[i].output_path = OutputRoot \o Relative(i)
      /\ Len(loc[i].output_path) > Len(OutputRoot)
      /\ loc[i].output_path[Len(loc[i].output_path)] = Input(i)[Len(Input(i))]

\* C27, as claimed: with an output directory, whichever it is, a file for
\* which optimize_image has returned, Ok or Err, still holds the bytes it
\* had before the run.
C27_InputUntouched ==
  ~is_in_place =>
    \A i \in Files :
      Returned(i) => Exists(fs, Input(i)) /\ fs[Input(i)] = fs0[Input(i)]

\* The triple a sequential run reports for the results the files returned:
\* the closure applied to the files one after the other, in list order.
RECURSIVE SequentialRun(_)
SequentialRun(k) ==
  IF k = 0 THEN [processed |-> 0, skipped |-> 0, total_saved |-> 0]
  ELSE LET t == SequentialRun(k - 1)
           r == loc[k].result
       IN IF r.tag = "Ok" /\ r.n > 0
          THEN [t EXCEPT !.processed = @ + 1, !.total_saved = @ + r.n]
          ELSE IF r.tag = "Ok" THEN [t EXCEPT !.skipped = @ + 1]
          ELSE t

\* C28: whatever the interleaving of the workers, the triple reported at
\* the end of a run, parallel or sequential, is the one a sequential pass
\* over the same list with the same per-file results reports.
C28_ParallelEqualsSequential ==
  mpc = "done" => report = SequentialRun(Len(image_files))

C28_Witness ==
  /\ mpc = "done" /\ ~args.no_parallel
  /\ Cardinality(Shrunk) = 2
  /\ report = [processed |-> 2, skipped |-> 0,
               total_saved |-> 2 * (OrigSize - 1)]

ReturnsOk(i) == loc[i].result.tag # "Ok" /\ loc'[i].result.tag = "Ok"

\* C29: in place, at the step with which optimize_image returns Ok the
\* staging file, present until then, is gone: renamed over the original
\* when bytes were saved, removed when none were.
C29_NoStagingAfterOk ==
  [][is_in_place =>
       \A i \in Files :
         ReturnsOk(i) =>
           /\ Exists(fs, Staged(i))
           /\ ~Exists(fs', Staged(i))
           /\ IF loc'[i].result.n > 0
              THEN fs' = Put(Del(fs, Staged(i)), Input(i), fs[Staged(i)])
              ELSE fs' = Del(fs, Staged(i))]_vars

C29_Witness ==
  /\ is_in_place
  /\ \E i \in Files :
       /\ ReturnedOk(i) /\ loc[i].result.n = 0
       /\ Staged(i) = FileATmp
       /\ ~Exists(fs, FileATmp)
       /\ fs[Input(i)] = fs0[Input(i)]

\* ------------------------------------------------------------------ C30
IsBak(p) == p[Len(p)][Len(p[Len(p)])] = "bak"
BackupDone(i) == pc[i] = "backup" /\ pc'[i] \in {"decode", "encode"}
Altered(p) ==
  \/ Exists(fs, p) # Exists(fs', p)
  \/ Exists(fs, p) /\ Exists(fs', p) /\ fs'[p] # fs[p]

\* C30, as claimed: in place with --backup, over any sequence of runs, a
\* backup step that succeeds leaves in "<name>.<ext>.bak" the bytes the
\* original had at the start of that run, whether or not a backup was there
\* before, and no other step of any run (encoding, the size comparison, the
\* rename, the removal of the staging file, a failure) creates, changes or
\* removes a ".bak" file.
C30_BackupHoldsStartOfRun ==
  [][/\ \A i \in Files :
          BackupDone(i) =>
            Exists(fs', BackupOf(i)) /\ fs'[BackupOf(i)] = fs0[Input(i)]
     /\ \A p \in (DOMAIN fs) \cup (DOMAIN fs') :
          (IsBak(p) /\ Altered(p)) =>
            \E i \in Files : BackupDone(i) /\ BackupOf(i) = p]_vars

====
